---- MODULE Spec2Model ----
(***************************************************************************)
(* The SearchTab screen of shoppin-clone: the incremental search session   *)
(* (text / image search, pagination, filters) and the product-detail       *)
(* lookup, as a state machine.  Every handler of the component is one      *)
(* action; every awaited network call is a request record in `inflight`    *)
(* whose completion (in any order) is a separate action.                   *)
(***************************************************************************)
EXTENDS Integers, Sequences, FiniteSets, TLC

(* ------------------------------ bounds --------------------------------- *)
\* number of requests (searches and detail lookups) a behaviour may dispatch
MaxRequests == 2
\* number of items of one server page / one similar-products list
MaxPageLen == 2
\* product ids the server draws from
MaxProductId == 2
\* number of requests a behaviour of SpecFilter may dispatch
MaxFilterRequests == 1
\* widest window, in px
MaxWidth == 1700

(* -------------------------- program constants -------------------------- *)
PAGE_SIZE == 20

PRICE_PRESETS ==
  << [min |-> 0,     max |-> 1000],
     [min |-> 1000,  max |-> 2500],
     [min |-> 2500,  max |-> 5000],
     [min |-> 5000,  max |-> 10000],
     [min |-> 10000, max |-> 1000000] >>

\* getNumColumns of the revision with two tiers only
GetNumColumnsTwoTier(w) == IF w >= 700 THEN 2 ELSE 1

\* getNumColumns: responsive breakpoints -> 1-5 columns
GetNumColumns(w) ==
  IF w >= 1600 THEN 5
  ELSE IF w >= 1200 THEN 4
  ELSE IF w >= 900 THEN 3
  ELSE IF w >= 700 THEN 2
  ELSE 1

(* ------------------------------ values --------------------------------- *)
\* a JavaScript string is a sequence of characters; '' is the empty sequence
EmptyStr == << >>
\* error: string | null
NULL == "<null>"
\* useRef<string | undefined>(undefined) and optional response fields
UNDEFINED == <<"undefined", 0>>
EMPTY_ID == <<"empty", 0>>
ClientId(n) == <<"uuid", n>>
ServerId(n) == <<"server", n>>
\* picked: ImagePickerAsset | null
NoAsset == "null"
Assets == {"asset1"}
\* detailProduct: Product | null ; a Product is identified by its id, and its
\* color_text_hash is the key the detail lookup is made with
NoProduct == 0
ProductIds == 1..MaxProductId
NoHash == 0
\* number | undefined
None == << >>
Some(x) == << x >>
NaN == [nan |-> TRUE, val |-> 0]
Num(n) == [nan |-> FALSE, val |-> n]

\* The server's result list is a fixed sequence in which product ids repeat; a
\* response carries the slice of it that starts at the request's offset and has
\* between 0 and MaxPageLen items.
Catalog(i) == ((i - 1) % MaxProductId) + 1
Page(offset, n) == [i \in 1..n |-> Catalog(offset + i)]
Pages(offset) == { Page(offset, n) : n \in 0..MaxPageLen }

(* --------------------------- string helpers ---------------------------- *)
IsSpace(c) == c = " "

RECURSIVE TrimStart(_)
TrimStart(s) ==
  IF s = << >> THEN s
  ELSE IF IsSpace(Head(s)) THEN TrimStart(Tail(s)) ELSE s

RECURSIVE TrimEnd(_)
TrimEnd(s) ==
  IF s = << >> THEN s
  ELSE IF IsSpace(s[Len(s)]) THEN TrimEnd(SubSeq(s, 1, Len(s) - 1)) ELSE s

\* String.prototype.trim
Trim(s) == TrimEnd(TrimStart(s))

LowerOf(c) ==
  CASE c = "A" -> "a"
    [] c = "B" -> "b"
    [] OTHER -> c

\* String.prototype.toLowerCase
ToLowerCase(s) == [i \in 1..Len(s) |-> LowerOf(s[i])]

\* Array.prototype.includes
Includes(seq, x) == \E i \in 1..Len(seq) : seq[i] = x

\* Array.prototype.filter
RECURSIVE FilterOut(_, _)
FilterOut(seq, b) ==
  IF seq = << >> THEN << >>
  ELSE IF Head(seq) # b THEN << Head(seq) >> \o FilterOut(Tail(seq), b)
       ELSE FilterOut(Tail(seq), b)

RECURSIVE JoinQuoted(_)
JoinQuoted(seq) ==
  IF seq = << >> THEN << >>
  ELSE << "\"" >> \o Head(seq) \o << "\"" >>
       \o (IF Tail(seq) = << >> THEN << >> ELSE << "," >> \o JoinQuoted(Tail(seq)))

\* JSON.stringify of an array of strings
JSONStringify(seq) == << "[" >> \o JoinQuoted(seq) \o << "]" >>

IsDigit(c) == c \in { "0", "1", "2", "3", "4", "5", "6", "7", "8", "9" }

DigitVal(c) ==
  CASE c = "0" -> 0 [] c = "1" -> 1 [] c = "2" -> 2 [] c = "3" -> 3 [] c = "4" -> 4
    [] c = "5" -> 5 [] c = "6" -> 6 [] c = "7" -> 7 [] c = "8" -> 8 [] c = "9" -> 9

AllDigits(s) == s # << >> /\ \A i \in 1..Len(s) : IsDigit(s[i])

RECURSIVE DigitsVal(_)
DigitsVal(s) ==
  IF s = << >> THEN 0 ELSE 10 * DigitsVal(SubSeq(s, 1, Len(s) - 1)) + DigitVal(s[Len(s)])

\* Number(v) for a string of spaces, digits, '-' and letters: surrounding white
\* space is ignored, '' is 0, a decimal literal with an optional sign is its
\* value, anything else is NaN
NumberOf(v) ==
  LET t == Trim(v)
  IN  IF t = << >> THEN Num(0)
      ELSE IF AllDigits(t) THEN Num(DigitsVal(t))
      ELSE IF Head(t) = "-" /\ AllDigits(Tail(t)) THEN Num(0 - DigitsVal(Tail(t)))
      ELSE NaN

(* ------------------------------- state --------------------------------- *)
VARIABLES
  query,            \* useState('')
  picked,           \* useState<ImagePickerAsset | null>(null)
  filterVisible,    \* useState(false)
  brandInput,       \* useState('')
  selectedBrands,   \* useState<string[]>([])
  priceMin,         \* useState<number | undefined>()
  priceMax,         \* useState<number | undefined>()
  rawResults,       \* useState<Product[]>([])
  visible,          \* useState<Product[]>([])
  loading,          \* useState(false)
  error,            \* useState<string | null>(null)
  detailProduct,    \* useState<Product | null>(null)
  detailImgIdx,     \* useState(0)
  similarProducts,  \* useState<Product[]>([])
  similarFor,       \* history: the hash the list in similarProducts was fetched for
  lastSearchId,     \* useRef<string | undefined>(undefined)
  width,            \* useWindowDimensions().width
  numColumns,       \* useState(() => getNumColumns(width))
  inflight,         \* the async calls suspended at an await
  uuidCount,        \* how many ids uuidv4() has produced
  nextRid,          \* how many async calls have been started
  mergeLog,         \* history: the responses appendJson merged since the last wipe
  lastOp            \* history: the gesture handler that ran last, the failure that
                    \* was caught last, or the kind of search_id of the response
                    \* that was merged last (of a similar-products answer: whether it
                    \* had the list); Other after any other step

filterVars == << filterVisible, brandInput, selectedBrands, priceMin, priceMax >>
detailVars == << detailProduct, detailImgIdx, similarProducts, similarFor >>
layoutVars == << width, numColumns >>
sessionVars == << rawResults, visible, lastSearchId, uuidCount, mergeLog >>
vars == << query, picked, filterVisible, brandInput, selectedBrands, priceMin, priceMax,
           rawResults, visible, loading, error, detailProduct, detailImgIdx,
           similarProducts, similarFor, lastSearchId, width, numColumns, inflight,
           uuidCount,
           nextRid, mergeLog, lastOp >>

Other == "-"

\* the window's width when the screen is mounted
PhoneWidth == 390
\* the widths the window can be given
Widths == 0..MaxWidth

\* what the user can type into the search box
Queries == { << >>, << " " >>, << " ", "a" >> }

Init ==
  /\ query = EmptyStr
  /\ picked = NoAsset
  /\ filterVisible = FALSE
  /\ brandInput = EmptyStr
  /\ selectedBrands = << >>
  /\ priceMin = None
  /\ priceMax = None
  /\ rawResults = << >>
  /\ visible = << >>
  /\ loading = FALSE
  /\ error = NULL
  /\ detailProduct = NoProduct
  /\ detailImgIdx = 0
  /\ similarProducts = << >>
  /\ similarFor = NoHash
  /\ lastSearchId = UNDEFINED
  /\ width = PhoneWidth
  /\ numColumns = GetNumColumns(PhoneWidth)
  /\ inflight = {}
  /\ uuidCount = 0
  /\ nextRid = 0
  /\ mergeLog = << >>
  /\ lastOp = Other

(* ---------------------------- core helpers ----------------------------- *)
\* wipe() that forgets to renew the id
WipeKeepId ==
  /\ rawResults' = << >>
  /\ visible' = << >>
  /\ uuidCount' = uuidCount + 1
  /\ lastSearchId' = lastSearchId
  /\ mergeLog' = << >>

\* wipe(): both lists emptied, a fresh uuid becomes the session id
Wipe ==
  /\ rawResults' = << >>
  /\ visible' = << >>
  /\ uuidCount' = uuidCount + 1
  /\ lastSearchId' = ClientId(uuidCount + 1)
  /\ mergeLog' = << >>

NoWipe == UNCHANGED sessionVars

\* a parsed response body: null, or an object with optional search_id and data
NullJson == [isNull |-> TRUE, search_id |-> UNDEFINED, data |-> None]
Json(sid, d) == [isNull |-> FALSE, search_id |-> sid, data |-> d]

\* JavaScript truthiness of json?.search_id
Truthy(sid) == sid # UNDEFINED /\ sid # EMPTY_ID

\* json?.data ?? []
DataOf(json) == IF json.isNull \/ json.data = None THEN << >> ELSE json.data[1]

\* the assignment without its test:  lastSearchId.current = json?.search_id
AdoptIdAlways(cur, json) == json.search_id

\* appendJson that never takes the response's id
AdoptIdNever(cur, json) == cur

\* the id the ref holds after  if (json?.search_id) lastSearchId.current = json.search_id
AdoptId(cur, json) ==
  IF ~json.isNull /\ Truthy(json.search_id) THEN json.search_id ELSE cur

\* which search_id the response to the call r carried: none that counts (a null
\* body, no field, ''), the id the request was sent with, or one of the server's
MergedTag(r, json) ==
  IF json.isNull \/ ~Truthy(json.search_id) THEN "mergedNoId"
  ELSE IF json.search_id = r.sentId THEN "mergedSentId"
  ELSE "mergedServerId"

\* Spread, de-duplicating by id
SpreadDedup(p, json) ==
  p \o SelectSeq(DataOf(json), LAMBDA x : ~Includes(p, x))

\* the updater  (p) => [...p, ...(json?.data ?? [])]
Spread(p, json) == p \o DataOf(json)

\* appendJson that appends to rawResults only
AppendJsonRawOnly(r, json) ==
  /\ lastSearchId' = AdoptId(lastSearchId, json)
  /\ rawResults' = Spread(rawResults, json)
  /\ visible' = visible
  /\ mergeLog' = Append(mergeLog, [gen |-> r.gen, offset |-> r.offset,
                                   data |-> json.data, isNull |-> json.isNull,
                                   retry |-> r.retry])
  /\ UNCHANGED uuidCount

\* appendJson(json), on behalf of the call r
AppendJson(r, json) ==
  /\ lastSearchId' = AdoptId(lastSearchId, json)
  /\ rawResults' = Spread(rawResults, json)
  /\ visible' = Spread(visible, json)
  /\ mergeLog' = Append(mergeLog, [gen |-> r.gen, offset |-> r.offset,
                                   data |-> json.data, isNull |-> json.isNull,
                                   retry |-> r.retry])
  /\ UNCHANGED uuidCount

\* filterFields whose brand key is always there
FilterFieldsAlwaysBrand ==
  [ brand     |-> Some(JSONStringify(selectedBrands)),
    price_min |-> priceMin,
    price_max |-> priceMax ]

\* const filterFields = {...}
FilterFields ==
  [ brand     |-> IF Len(selectedBrands) # 0 THEN Some(JSONStringify(selectedBrands)) ELSE None,
    price_min |-> priceMin,
    price_max |-> priceMax ]

\* e.message || 'Network error'
ErrorText(msg) == IF msg = "" THEN "Network error" ELSE msg

\* the ways an awaited fetch / res.json() can throw: the message of the Error
\* (res.statusText of a non-ok response, which may be empty; a transport
\* failure; a body that is not JSON)
FailureMessages == { "", "Internal Server Error" }

\* the bodies a successful search response can carry for the call r
Jsons(r) ==
  { NullJson } \cup
  { Json(sid, d) : sid \in { UNDEFINED, EMPTY_ID, r.sentId, ServerId(r.gen) },
                   d \in { None } \cup { Some(p) : p \in Pages(r.offset) } }

(* ------------------------- request encoding ---------------------------- *)
DigitChar(d) ==
  CASE d = 0 -> "0" [] d = 1 -> "1" [] d = 2 -> "2" [] d = 3 -> "3" [] d = 4 -> "4"
    [] d = 5 -> "5" [] d = 6 -> "6" [] d = 7 -> "7" [] d = 8 -> "8" [] d = 9 -> "9"

RECURSIVE DigitsOf(_)
DigitsOf(n) ==
  IF n < 10 THEN << DigitChar(n) >> ELSE DigitsOf(n \div 10) \o << DigitChar(n % 10) >>

\* String(v) of a number
StringOfNumber(x) ==
  IF x.nan THEN << "N", "a", "N" >>
  ELSE IF x.val < 0 THEN << "-" >> \o DigitsOf(0 - x.val)
  ELSE DigitsOf(x.val)

\* String(v) of a session id: '' has no characters
StringOfId(id) == IF id = EMPTY_ID THEN << >> ELSE << id[1] >> \o DigitsOf(id[2])

EncodeChar(c) ==
  CASE c = "\"" -> << "%", "2", "2" >>
    [] c = "["  -> << "%", "5", "B" >>
    [] c = "]"  -> << "%", "5", "D" >>
    [] c = ","  -> << "%", "2", "C" >>
    [] c = " "  -> << "%", "2", "0" >>
    [] OTHER    -> << c >>

\* encodeURIComponent
RECURSIVE EncodeURIComponent(_)
EncodeURIComponent(str) ==
  IF str = << >> THEN << >> ELSE EncodeChar(Head(str)) \o EncodeURIComponent(Tail(str))

\* Object.entries(filterFields): a key is there only when its spread put it
\* there; every value is carried as its String(v)
FilterEntries(fields) ==
  (IF fields.brand # None THEN << << "brand", Some(fields.brand[1]) >> >> ELSE << >>)
  \o (IF fields.price_min # None
      THEN << << "price_min", Some(StringOfNumber(fields.price_min[1])) >> >> ELSE << >>)
  \o (IF fields.price_max # None
      THEN << << "price_max", Some(StringOfNumber(fields.price_max[1])) >> >> ELSE << >>)

\* toUrlEncoded(obj): the entries whose value is undefined or null (None here)
\* are dropped, the others become  key=value  pairs, both sides encoded
RECURSIVE ToUrlEncoded(_)
ToUrlEncoded(entries) ==
  IF entries = << >> THEN << >>
  ELSE LET e == Head(entries)
       IN  (IF e[2] # None
            THEN << << e[1], EncodeURIComponent(e[2][1]) >> >>
            ELSE << >>)
           \o ToUrlEncoded(Tail(entries))

\* the object fetchText passes to postEncoded
TextObject(r) ==
  << << "search_type", Some(<< "text_search" >>) >>,
     << "query", Some(r.q) >>,
     << "offset", Some(DigitsOf(r.offset)) >>,
     << "limit", Some(DigitsOf(r.limit)) >>,
     << "search_id", IF r.sentId = UNDEFINED THEN None ELSE Some(StringOfId(r.sentId)) >> >>
  \o FilterEntries(r.fields)

RECURSIVE AppendAll(_)
AppendAll(entries) ==
  IF entries = << >> THEN << >>
  ELSE << << Head(entries)[1], Head(entries)[2][1] >> >> \o AppendAll(Tail(entries))

\* the FormData fetchImage posts: fd.append(k, String(v)) for each field
FormData(r) ==
  << << "search_type", << "image_search" >> >>,
     << "offset", DigitsOf(r.offset) >>,
     << "limit", DigitsOf(r.limit) >>,
     << "coordinates", << "{x:5,y:5,width:90,height:90}" >> >>,
     << "search_id", IF r.sentId = UNDEFINED THEN << "undefined" >> ELSE StringOfId(r.sentId) >> >>
  \o AppendAll(FilterEntries(r.fields))
  \o << << "file", << r.asset >> >> >>

\* the body of the search request of the call r, as key / value pairs
BodyOf(r) == IF r.kind = "text" THEN ToUrlEncoded(TextObject(r)) ELSE FormData(r)

(* --------------------------- async calls ------------------------------- *)
\* One suspended call.  kind/stage say which await it is parked at:
\*   text/post     fetchText   awaiting postEncoded(...)
\*   image/blob    fetchImage  awaiting fetch(asset.uri).blob()
\*   image/post    fetchImage  awaiting postMultipart(fd)
\*   detail/detail openDetail  awaiting fetch(DETAIL_ENDPOINT)
\*   detail/similar openDetail awaiting fetch(SIMILAR_ENDPOINT)
\* offset, limit, sentId, q, fields, asset, hash are what the call captured or sent;
\* gen (the number of the session the call was made in), rawAtSend (rawResults when
\* the request left) and retry (an error was showing when the call was made) are
\* history only, and so is got (the data the detail endpoint answered with, once
\* openDetail is past its first await).
Call(kind, stage, offset, sentId, q, asset, hash, raw) ==
  [ rid |-> nextRid + 1, kind |-> kind, stage |-> stage, offset |-> offset,
    limit |-> PAGE_SIZE, gen |-> uuidCount', sentId |-> sentId, q |-> q,
    fields |-> FilterFields, asset |-> asset, hash |-> hash,
    rawAtSend |-> raw, retry |-> (error # NULL), got |-> None ]

callVars == << rawResults, visible, lastSearchId, uuidCount, mergeLog,
               loading, error, inflight, nextRid >>

\* fetchText that tests the query without trimming it
FetchTextNoTrim(offset) ==
  IF query = EmptyStr
  THEN UNCHANGED callVars
  ELSE /\ nextRid < MaxRequests
       /\ IF offset = 0 THEN Wipe ELSE NoWipe
       /\ loading' = TRUE
       /\ error' = NULL
       /\ inflight' = inflight \cup
            { Call("text", "post", offset, lastSearchId', Trim(query), NoAsset, NoHash,
                   rawResults') }
       /\ nextRid' = nextRid + 1

\* fetchText without setError(null)
FetchTextKeepError(offset) ==
  IF Trim(query) = EmptyStr
  THEN UNCHANGED callVars
  ELSE /\ nextRid < MaxRequests
       /\ IF offset = 0 THEN Wipe ELSE NoWipe
       /\ loading' = TRUE
       /\ error' = error
       /\ inflight' = inflight \cup
            { Call("text", "post", offset, lastSearchId', Trim(query), NoAsset, NoHash,
                   rawResults') }
       /\ nextRid' = nextRid + 1

\* fetchText(offset)
FetchText(offset) ==
  IF Trim(query) = EmptyStr
  THEN UNCHANGED callVars
  ELSE /\ nextRid < MaxRequests
       /\ IF offset = 0 THEN Wipe ELSE NoWipe
       /\ loading' = TRUE
       /\ error' = NULL
       /\ inflight' = inflight \cup
            { Call("text", "post", offset, lastSearchId', Trim(query), NoAsset, NoHash,
                   rawResults') }
       /\ nextRid' = nextRid + 1

\* fetchImage(asset, offset), up to its first await
FetchImage(asset, offset) ==
  IF asset = NoAsset
  THEN UNCHANGED callVars
  ELSE /\ nextRid < MaxRequests
       /\ IF offset = 0 THEN Wipe ELSE NoWipe
       /\ loading' = TRUE
       /\ error' = NULL
       /\ inflight' = inflight \cup
            { Call("image", "blob", offset, UNDEFINED, EmptyStr, asset, NoHash,
                   rawResults') }
       /\ nextRid' = nextRid + 1

\* openDetail that starts by wiping the results
OpenDetailWipes(hash) ==
  /\ nextRid < MaxRequests
  /\ Wipe
  /\ loading' = TRUE
  /\ error' = NULL
  /\ inflight' = inflight \cup
       { Call("detail", "detail", 0, UNDEFINED, EmptyStr, NoAsset, hash, rawResults) }
  /\ nextRid' = nextRid + 1

\* openDetail(hash), up to its first await
OpenDetail(hash) ==
  /\ nextRid < MaxRequests
  /\ NoWipe
  /\ loading' = TRUE
  /\ error' = NULL
  /\ inflight' = inflight \cup
       { Call("detail", "detail", 0, UNDEFINED, EmptyStr, NoAsset, hash, rawResults) }
  /\ nextRid' = nextRid + 1

\* catch (e) { setError(e.message || 'Network error') } finally { setLoading(false) }
Fail(r, msg) ==
  /\ error' = ErrorText(msg)
  /\ loading' = FALSE
  /\ inflight' = inflight \ { r }

(* --------------------------- UI handlers ------------------------------- *)
\* onChangeText={setQuery}
SetQuery ==
  /\ \E q \in Queries : query' = q
  /\ lastOp' = Other
  /\ UNCHANGED << layoutVars, picked, filterVars, callVars, detailVars >>

\* runTextSearch = () => fetchText(0)
RunTextSearch ==
  /\ FetchText(0)
  /\ lastOp' = "runTextSearch"
  /\ UNCHANGED << layoutVars, query, picked, filterVars, detailVars >>

\* handlePickImage: the picker is cancelled, or returns an asset
HandlePickImage ==
  /\ \/ /\ UNCHANGED << picked, callVars >>
     \/ \E a \in Assets :
          /\ picked' = a
          /\ FetchImage(a, 0)
  /\ lastOp' = "handlePickImage"
  /\ UNCHANGED << layoutVars, query, filterVars, detailVars >>

\* handleEndReached whose guard is  visible.length > rawResults.length
HandleEndReachedStrict ==
  /\ IF Len(visible) > Len(rawResults)
     THEN UNCHANGED callVars
     ELSE IF picked # NoAsset
          THEN FetchImage(picked, Len(rawResults))
          ELSE FetchText(Len(rawResults))
  /\ lastOp' = "handleEndReached"
  /\ UNCHANGED << layoutVars, query, picked, filterVars, detailVars >>

\* handleEndReached (the list's onEndReached)
HandleEndReached ==
  /\ IF Len(visible) >= Len(rawResults)
     THEN UNCHANGED callVars
     ELSE IF picked # NoAsset
          THEN FetchImage(picked, Len(rawResults))
          ELSE FetchText(Len(rawResults))
  /\ lastOp' = "handleEndReached"
  /\ UNCHANGED << layoutVars, query, picked, filterVars, detailVars >>

\* the hashes of the ProductCards on screen: the results grid, and the similar
\* products list of the detail view while it is shown; a product's
\* color_text_hash is modelled by its id
CardsShown ==
  { visible[i] : i \in 1..Len(visible) } \cup
  (IF detailProduct # NoProduct
   THEN { similarProducts[i] : i \in 1..Len(similarProducts) }
   ELSE {})

\* a ProductCard is pressed:
\*   item.color_text_hash && onSelectHash(item.color_text_hash)
PressCard ==
  /\ \E hash \in CardsShown : OpenDetail(hash)
  /\ lastOp' = "openDetail"
  /\ UNCHANGED << layoutVars, query, picked, filterVars, detailVars >>

\* onClose={() => setDetailProduct(null)}
CloseDetail ==
  /\ detailProduct # NoProduct
  /\ detailProduct' = NoProduct
  /\ lastOp' = Other
  /\ UNCHANGED << layoutVars, query, picked, filterVars, callVars, detailImgIdx,
                  similarProducts, similarFor >>

(* ------------------- continuations after an await ---------------------- *)
\* fetchText resumes after  await postEncoded(...):
\*   throw (transport, !res.ok, res.json() rejects)  or  appendJson(await res.json())
TextResponse ==
  \E r \in inflight :
    /\ r.kind = "text" /\ r.stage = "post"
    /\ \/ \E msg \in FailureMessages :
            /\ Fail(r, msg)
            /\ NoWipe
            /\ lastOp' = "searchFailed"
       \/ \E json \in Jsons(r) :
            /\ AppendJson(r, json)
            /\ loading' = FALSE
            /\ inflight' = inflight \ { r }
            /\ lastOp' = MergedTag(r, json)
            /\ UNCHANGED error
    /\ UNCHANGED << layoutVars, query, picked, filterVars, detailVars, nextRid >>

\* fetchImage resumes after  await (await fetch(asset.uri)).blob():
\*   throw, or build the form (reading lastSearchId.current now) and post it
BlobDone ==
  \E r \in inflight :
    /\ r.kind = "image" /\ r.stage = "blob"
    /\ \/ \E msg \in FailureMessages :
            /\ Fail(r, msg)
            /\ lastOp' = "searchFailed"
       \/ /\ inflight' = (inflight \ { r }) \cup
               { [r EXCEPT !.stage = "post", !.sentId = lastSearchId,
                           !.rawAtSend = rawResults] }
          /\ lastOp' = Other
          /\ UNCHANGED << loading, error >>
    /\ NoWipe
    /\ UNCHANGED << layoutVars, query, picked, filterVars, detailVars, nextRid >>

\* fetchImage resumes after  await postMultipart(fd)
ImageResponse ==
  \E r \in inflight :
    /\ r.kind = "image" /\ r.stage = "post"
    /\ \/ \E msg \in FailureMessages :
            /\ Fail(r, msg)
            /\ NoWipe
            /\ lastOp' = "searchFailed"
       \/ \E json \in Jsons(r) :
            /\ AppendJson(r, json)
            /\ loading' = FALSE
            /\ inflight' = inflight \ { r }
            /\ lastOp' = MergedTag(r, json)
            /\ UNCHANGED error
    /\ UNCHANGED << layoutVars, query, picked, filterVars, detailVars, nextRid >>

\* the data of a detail answer for a hash: no product, the product of that
\* hash, or that product followed by others
DetailData(hash) == { Page(hash - 1, n) : n \in 0..MaxPageLen }

\* adopting the first product, and closing the detail view when there is none
AdoptFirstOrClear(data) ==
  /\ detailProduct' = (IF data # << >> THEN data[1] ELSE NoProduct)
  /\ detailImgIdx' = 0

\* const first = detJson?.data?.[0];
\* if (first) { setDetailProduct(first); setDetailImgIdx(0); }
AdoptFirst(data) ==
  IF data # << >>
  THEN detailProduct' = data[1] /\ detailImgIdx' = 0
  ELSE UNCHANGED << detailProduct, detailImgIdx >>

\* openDetail resumes after  await fetch(DETAIL_ENDPOINT) / det.json():
\*   throw, or adopt detJson?.data?.[0] when there is one and ask for the similar items
DetailResponse ==
  \E r \in inflight :
    /\ r.kind = "detail" /\ r.stage = "detail"
    /\ \/ \E msg \in FailureMessages :
            /\ Fail(r, msg)
            /\ lastOp' = "detailFailed"
            /\ UNCHANGED detailVars
       \/ \E data \in DetailData(r.hash) :
            /\ AdoptFirst(data)
            /\ inflight' = (inflight \ { r }) \cup
                 { [r EXCEPT !.stage = "similar", !.got = Some(data)] }
            /\ lastOp' = Other
            /\ UNCHANGED << loading, error, similarProducts, similarFor >>
    /\ NoWipe
    /\ UNCHANGED << layoutVars, query, picked, filterVars, nextRid >>

\* openDetail resumes after  await fetch(SIMILAR_ENDPOINT) / sim.json():
\*   throw, or setSimilarProducts(simJson?.similar_product_results ?? [])
SimilarResponse ==
  \E r \in inflight :
    /\ r.kind = "detail" /\ r.stage = "similar"
    /\ \/ \E msg \in FailureMessages :
            /\ Fail(r, msg)
            /\ lastOp' = "detailFailed"
            /\ UNCHANGED detailVars
       \/ \E sim \in { None } \cup { Some(p) : p \in Pages(0) } :
            /\ similarProducts' = (IF sim = None THEN << >> ELSE sim[1])
            /\ similarFor' = r.hash
            /\ loading' = FALSE
            /\ inflight' = inflight \ { r }
            /\ lastOp' = (IF sim = None THEN "similarAbsent" ELSE "similarGiven")
            /\ UNCHANGED << error, detailProduct, detailImgIdx >>
    /\ NoWipe
    /\ UNCHANGED << layoutVars, query, picked, filterVars, nextRid >>

(* ------------------------------ filters -------------------------------- *)
\* the filter icon: setFilterVisible(true)
OpenFilter ==
  /\ filterVisible' = TRUE
  /\ lastOp' = Other
  /\ UNCHANGED << layoutVars, query, picked, brandInput, selectedBrands, priceMin, priceMax,
                  callVars, detailVars >>

\* onClose={() => setFilterVisible(false)}
CloseFilter ==
  /\ filterVisible
  /\ filterVisible' = FALSE
  /\ lastOp' = Other
  /\ UNCHANGED << layoutVars, query, picked, brandInput, selectedBrands, priceMin, priceMax,
                  callVars, detailVars >>

\* apply: setFilterVisible(false); picked ? fetchImage(picked, 0) : fetchText(0)
Apply ==
  /\ filterVisible
  /\ filterVisible' = FALSE
  /\ IF picked # NoAsset THEN FetchImage(picked, 0) ELSE FetchText(0)
  /\ lastOp' = "apply"
  /\ UNCHANGED << layoutVars, query, picked, brandInput, selectedBrands, priceMin, priceMax,
                  detailVars >>

\* reset: setSelectedBrands([]); setPriceMin(undefined); setPriceMax(undefined)
ResetFilters ==
  /\ filterVisible
  /\ selectedBrands' = << >>
  /\ priceMin' = None
  /\ priceMax' = None
  /\ lastOp' = "filterEdit"
  /\ UNCHANGED << layoutVars, query, picked, filterVisible, brandInput, callVars, detailVars >>

\* what the user types into the brand box and into the Min / Max boxes
BrandInputs == { << " ", "A" >> }
PriceTexts == { << >>, << "7" >> }

\* onChangeText={setBrandInput}
SetBrandInput(inputs) ==
  /\ filterVisible
  /\ \E t \in inputs : brandInput' = t
  /\ lastOp' = "filterEdit"
  /\ UNCHANGED << layoutVars, query, picked, filterVisible, selectedBrands, priceMin, priceMax,
                  callVars, detailVars >>

\* addBrand that trims but does not lower-case
BrandsAfterAddNoLower(brands, input) ==
  LET trimmed == Trim(input)
  IN  IF trimmed # EmptyStr /\ ~Includes(brands, trimmed)
      THEN Append(brands, trimmed)
      ELSE brands

\* the brand list after addBrand
BrandsAfterAdd(brands, input) ==
  LET trimmed == ToLowerCase(Trim(input))
  IN  IF trimmed # EmptyStr /\ ~Includes(brands, trimmed)
      THEN Append(brands, trimmed)
      ELSE brands

\* addBrand that also re-runs the search
AddBrandRefetch ==
  /\ filterVisible
  /\ selectedBrands' = BrandsAfterAdd(selectedBrands, brandInput)
  /\ brandInput' = EmptyStr
  /\ FetchText(0)
  /\ lastOp' = "filterEdit"
  /\ UNCHANGED << layoutVars, query, picked, filterVisible, priceMin, priceMax, detailVars >>

\* addBrand
AddBrand ==
  /\ filterVisible
  /\ selectedBrands' = BrandsAfterAdd(selectedBrands, brandInput)
  /\ brandInput' = EmptyStr
  /\ lastOp' = "filterEdit"
  /\ UNCHANGED << layoutVars, query, picked, filterVisible, priceMin, priceMax, callVars, detailVars >>

\* removeBrand(b), from the x of the chip of b
RemoveBrand ==
  /\ filterVisible
  /\ \E i \in 1..Len(selectedBrands) :
       selectedBrands' = FilterOut(selectedBrands, selectedBrands[i])
  /\ lastOp' = "filterEdit"
  /\ UNCHANGED << layoutVars, query, picked, filterVisible, brandInput, priceMin, priceMax,
                  callVars, detailVars >>

\* a price preset row: setPriceMin(p.min); setPriceMax(p.max)
PickPreset ==
  /\ filterVisible
  /\ \E i \in 1..Len(PRICE_PRESETS) :
       /\ priceMin' = Some(Num(PRICE_PRESETS[i].min))
       /\ priceMax' = Some(Num(PRICE_PRESETS[i].max))
  /\ lastOp' = "filterEdit"
  /\ UNCHANGED << layoutVars, query, picked, filterVisible, brandInput, selectedBrands,
                  callVars, detailVars >>

\* (v) => v ? Number(v) : undefined
PriceOf(v) == IF v # EmptyStr THEN Some(NumberOf(v)) ELSE None

\* the Min box: onChangeText={(v) => setPriceMin(v ? Number(v) : undefined)}
EditPriceMin(texts) ==
  /\ filterVisible
  /\ \E v \in texts : priceMin' = PriceOf(v)
  /\ lastOp' = "filterEdit"
  /\ UNCHANGED << layoutVars, query, picked, filterVisible, brandInput, selectedBrands, priceMax,
                  callVars, detailVars >>

\* the Max box: onChangeText={(v) => setPriceMax(v ? Number(v) : undefined)}
EditPriceMax(texts) ==
  /\ filterVisible
  /\ \E v \in texts : priceMax' = PriceOf(v)
  /\ lastOp' = "filterEdit"
  /\ UNCHANGED << layoutVars, query, picked, filterVisible, brandInput, selectedBrands, priceMin,
                  callVars, detailVars >>

(* ------------------------------ layout --------------------------------- *)
\* the window is resized:  useEffect(() => setNumColumns(getNumColumns(width)), [width])
Resize ==
  /\ \E w \in Widths : width' = w
  /\ numColumns' = GetNumColumns(width')
  /\ lastOp' = Other
  /\ UNCHANGED << query, picked, filterVars, callVars, detailVars >>

(* -------------------------- specification ------------------------------ *)
Next ==
  \/ SetQuery
  \/ RunTextSearch
  \/ HandlePickImage
  \/ HandleEndReached
  \/ PressCard
  \/ CloseDetail
  \/ TextResponse
  \/ BlobDone
  \/ ImageResponse
  \/ DetailResponse
  \/ SimilarResponse
  \/ OpenFilter
  \/ CloseFilter
  \/ Apply

Spec == Init /\ [][Next]_vars

\* The filter sheet: every edit of the filters, with the text search it feeds.
NextFilter ==
  \/ SetBrandInput(BrandInputs)
  \/ AddBrand
  \/ RemoveBrand
  \/ PickPreset
  \/ EditPriceMin(PriceTexts)
  \/ EditPriceMax(PriceTexts)
  \/ ResetFilters
  \/ OpenFilter
  \/ CloseFilter
  \/ SetQuery
  \/ (nextRid < MaxFilterRequests /\ RunTextSearch)
  \/ (nextRid < MaxFilterRequests /\ Apply)
  \/ TextResponse

SpecFilter == Init /\ [][NextFilter]_vars

\* The screen once an image has been picked and its search (session 1) has been
\* answered: picked holds the asset, the answer is merged, nothing is
\* outstanding.  nextRid counts the calls started from here on.
FirstImageCall == [gen |-> 1, offset |-> 0, sentId |-> ClientId(1)]

InitImageSearched ==
  \E a \in Assets, json \in Jsons(FirstImageCall) :
    /\ query = EmptyStr
    /\ picked = a
    /\ filterVisible = FALSE
    /\ brandInput = EmptyStr
    /\ selectedBrands = << >>
    /\ priceMin = None
    /\ priceMax = None
    /\ rawResults = Spread(<< >>, json)
    /\ visible = Spread(<< >>, json)
    /\ loading = FALSE
    /\ error = NULL
    /\ detailProduct = NoProduct
    /\ detailImgIdx = 0
    /\ similarProducts = << >>
    /\ similarFor = NoHash
    /\ lastSearchId = AdoptId(ClientId(1), json)
    /\ width = PhoneWidth
    /\ numColumns = GetNumColumns(PhoneWidth)
    /\ inflight = {}
    /\ uuidCount = 1
    /\ nextRid = 0
    /\ mergeLog = << [gen |-> 1, offset |-> 0, data |-> json.data,
                      isNull |-> json.isNull, retry |-> FALSE] >>
    /\ lastOp = Other

\* Searching in both modalities and re-applying the filters, after an image
\* search.
NextModality ==
  \/ SetQuery
  \/ RunTextSearch
  \/ HandlePickImage
  \/ HandleEndReached
  \/ OpenFilter
  \/ CloseFilter
  \/ Apply
  \/ TextResponse
  \/ BlobDone
  \/ ImageResponse

SpecModality == InitImageSearched /\ [][NextModality]_vars

\* The filter sheet by itself, with more to type: brand names in either letter
\* case and with spaces around them, and Min / Max texts that are digits, a
\* negative number, or no number at all.
BrandTexts == { << " " >>, << "a" >>, << " ", "A", " " >>, << "B" >> }
PriceInputs == { << >>, << "7" >>, << "5" >>, << "-", "1" >>, << "a" >> }

NextFilterEdits ==
  \/ OpenFilter
  \/ CloseFilter
  \/ SetBrandInput(BrandTexts)
  \/ AddBrand
  \/ RemoveBrand
  \/ PickPreset
  \/ EditPriceMin(PriceInputs)
  \/ EditPriceMax(PriceInputs)
  \/ ResetFilters

SpecFilterEdits == Init /\ [][NextFilterEdits]_vars

\* Looking at products of the results of a search, while searching goes on.
NextDetail ==
  \/ PressCard
  \/ CloseDetail
  \/ DetailResponse
  \/ SimilarResponse
  \/ SetQuery
  \/ RunTextSearch
  \/ TextResponse
  \/ HandlePickImage
  \/ BlobDone
  \/ ImageResponse

SpecDetail == InitImageSearched /\ [][NextDetail]_vars

\* The window being resized.
NextLayout == Resize

SpecLayout == Init /\ [][NextLayout]_vars

(* ======================================================================= *)
(*                               properties                                *)
(* ======================================================================= *)

\* what one merged response contributed, read off the log: nothing when the
\* body was null or had no data field
ClaimData(e) == IF e.isNull \/ e.data = None THEN << >> ELSE e.data[1]

RECURSIVE Concat(_)
Concat(log) == IF log = << >> THEN << >> ELSE ClaimData(Head(log)) \o Concat(Tail(log))

RECURSIVE SumLen(_)
SumLen(log) == IF log = << >> THEN 0 ELSE Len(ClaimData(Head(log))) + SumLen(Tail(log))

\* this step merged a response (appendJson ran); the log entry of it
Merged == Len(mergeLog') = Len(mergeLog) + 1
MergedEntry == mergeLog'[Len(mergeLog')]

\* this step started the async call r
Started(r) == r \in inflight' /\ r.rid = nextRid + 1 /\ nextRid' = nextRid + 1
StartedSearch(r) == Started(r) /\ r.kind \in { "text", "image" }

\* this step caught the failure of the search call r
CaughtSearch(r) == lastOp' = "searchFailed" /\ r \in inflight /\ r \notin inflight'

sessionState == << rawResults, visible, lastSearchId, loading, error >>
noRequest == UNCHANGED << inflight, nextRid >>

\* C1: within one session (since the last wipe) rawResults is the concatenation,
\* in merge order, of the data of the responses merged: its length is the sum of
\* the page sizes, repeated ids are kept, and a response without data adds nothing.
C1_Concatenation ==
  /\ rawResults = Concat(mergeLog)
  /\ Len(rawResults) = SumLen(mergeLog)

\* C1 witness: two non-empty pages were merged in one session and the second
\* repeats an id of the first, with a data-less response merged as well
C1_Witness ==
  /\ Len(mergeLog) = 2
  /\ ClaimData(mergeLog[1]) # << >>
  /\ ClaimData(mergeLog[2]) # << >>
  /\ ClaimData(mergeLog[2])[1] = ClaimData(mergeLog[1])[1]
  /\ Len(rawResults) = Len(ClaimData(mergeLog[1])) + Len(ClaimData(mergeLog[2]))

\* C2: the page-0 response of a search is merged onto empty lists, so that after
\* the merge rawResults is exactly that page's data.
C2_PageZeroMergedOntoEmpty ==
  [][ (Merged /\ MergedEntry.offset = 0)
        => /\ rawResults = << >>
           /\ visible = << >>
           /\ rawResults' = ClaimData(MergedEntry) ]_vars

\* C3: rawResults holds only items of responses to requests issued by the
\* session that is active now: a stale response is never merged.
C3_OnlyCurrentSession ==
  \A i \in 1..Len(mergeLog) :
    ClaimData(mergeLog[i]) # << >> => mergeLog[i].gen = uuidCount

C5_LoadMoreNoOp ==
  [][ (lastOp' = "handleEndReached" /\ Len(visible) >= Len(rawResults))
        => /\ UNCHANGED sessionState
           /\ noRequest ]_vars

\* C5 witness: handleEndReached ran with results on screen and an error showing
C5_Witness ==
  /\ lastOp = "handleEndReached"
  /\ rawResults # << >>
  /\ Len(visible) >= Len(rawResults)
  /\ error # NULL

\* C6: with a successful page 0 on screen and nothing outstanding,
\* handleEndReached sends the next page: offset = rawResults.length, limit = 20,
\* the same session id, the same modality and the same filters, and wipes nothing.
C6_LoadMoreSendsNextPage ==
  [][ ( /\ lastOp' = "handleEndReached"
        /\ rawResults # << >>
        /\ mergeLog # << >>
        /\ inflight = {}
        /\ nextRid < MaxRequests
        /\ (picked # NoAsset \/ Trim(query) # EmptyStr) )
        => /\ \E r \in inflight' :
                /\ StartedSearch(r)
                /\ r.offset = Len(rawResults)
                /\ r.limit = PAGE_SIZE
                /\ r.kind = (IF picked # NoAsset THEN "image" ELSE "text")
                /\ r.fields = FilterFields
           /\ lastSearchId' = lastSearchId
           /\ UNCHANGED << rawResults, visible >> ]_vars

\* C7: a text search with a blank query changes nothing and sends nothing: the
\* results are not wiped, the id is kept, loading and error keep their values.
C7_BlankQueryNoOp ==
  [][ ( /\ Trim(query) = EmptyStr
        /\ \/ lastOp' = "runTextSearch"
           \/ (lastOp' = "apply" /\ picked = NoAsset) )
        => /\ UNCHANGED sessionState
           /\ UNCHANGED << uuidCount, mergeLog >>
           /\ noRequest ]_vars

\* C7 witness: Search was pressed on a query of spaces while results and an
\* error were showing, and both are still there
C7_Witness ==
  /\ lastOp = "runTextSearch"
  /\ query # EmptyStr
  /\ Trim(query) = EmptyStr
  /\ rawResults # << >>
  /\ error # NULL

\* C8: when a search request fails nothing of it is merged: rawResults and
\* visible equal what they were when the request was sent (empty for an
\* offset-0 request), the session id is unchanged, loading is false and error is
\* a non-empty string.
C8_AsAtSend ==
  [][ \A r \in inflight :
        CaughtSearch(r)
          => /\ rawResults' = r.rawAtSend
             /\ visible' = r.rawAtSend
             /\ lastSearchId' = lastSearchId
             /\ loading' = FALSE
             /\ error' \notin { NULL, "" } ]_vars

\* The catch / finally of a search by itself: rawResults, visible and the
\* session id are what they were just before the failure was caught (which is
\* what they were when the request was sent if it belongs to the current
\* session and nothing has been merged since), loading becomes false and error
\* a non-empty string.
FailureMergesNothing ==
  [][ \A r \in inflight :
        CaughtSearch(r)
          => /\ UNCHANGED << rawResults, visible, lastSearchId, mergeLog >>
             /\ loading' = FALSE
             /\ error' # NULL
             /\ error' # ""
             /\ (r.gen = uuidCount /\ mergeLog = << >>)
                  => (rawResults' = r.rawAtSend /\ visible' = r.rawAtSend) ]_vars

\* a search failure was caught while results were on screen
FailureWithResults ==
  /\ lastOp = "searchFailed"
  /\ rawResults # << >>
  /\ visible = rawResults
  /\ ~loading
  /\ error \notin { NULL, "" }

\* C9: every search or detail call that passes its precondition sets error to
\* null as it starts, and a successful merge does not set it: the first merge
\* of the current session, with no error caught since, ends with error = null
\* and rawResults equal to the returned page.
C9_ErrorCleared ==
  [][ /\ \A r \in inflight' : Started(r) => error' = NULL
      /\ Merged => error' = error
      /\ (Merged /\ mergeLog = << >> /\ MergedEntry.gen = uuidCount /\ error = NULL)
           => (error' = NULL /\ rawResults' = ClaimData(MergedEntry)) ]_vars

\* C9 witness: a search started while an error was showing has been merged:
\* the error is gone and the results are the returned page
C9_Witness ==
  /\ Len(mergeLog) = 1
  /\ mergeLog[1].retry
  /\ ClaimData(mergeLog[1]) # << >>
  /\ rawResults = ClaimData(mergeLog[1])
  /\ error = NULL
  /\ inflight = {}

\* C10: an edit of the filters (brand box, add, remove, preset, Min, Max, reset)
\* sends no request and leaves results, session id, loading and error alone; of
\* the filter sheet's actions only apply starts a request, and that request
\* carries the filters as they are then.
C10_FilterEditPure ==
  [][ /\ lastOp' = "filterEdit"
           => /\ UNCHANGED sessionState
              /\ UNCHANGED << uuidCount, mergeLog >>
              /\ noRequest
      /\ ( /\ lastOp' = "apply"
            /\ (picked # NoAsset \/ Trim(query) # EmptyStr) )
           => \E r \in inflight' :
                /\ StartedSearch(r)
                /\ r.fields = FilterFields
                /\ r.offset = 0 ]_vars

\* C10 witness: a brand was added while a request was outstanding
C10_Witness ==
  /\ lastOp = "filterEdit"
  /\ selectedBrands # << >>
  /\ inflight # {}
  /\ loading

\* C11: apply re-runs the search in the modality of the search started last:
\* while the call started last is a search still outstanding, apply starts a
\* search of the same kind (text after a text search, image after an image
\* search) from offset 0.
C11_ApplyKeepsModality ==
  [][ \A o \in inflight :
        ( /\ lastOp' = "apply"
          /\ o.rid = nextRid
          /\ o.kind \in { "text", "image" }
          /\ nextRid < MaxRequests
          /\ Trim(query) # EmptyStr )
          => \E r \in inflight' :
               /\ StartedSearch(r)
               /\ r.kind = o.kind
               /\ r.offset = 0 ]_vars

\* C12: the merge of a successful response adopts the response's search_id
\* when it carries a non-empty one (the server's, or the one the request was
\* sent with) and leaves the session id as it was when it carries none.
C12_AdoptEchoedId ==
  [][ \A r \in inflight :
        (Merged /\ r \notin inflight')
          => /\ lastOp' = "mergedServerId" => lastSearchId' = ServerId(r.gen)
             /\ lastOp' = "mergedSentId" => lastSearchId' = r.sentId
             /\ lastOp' = "mergedNoId" => lastSearchId' = lastSearchId ]_vars

\* C12 witness: the session's own response was merged with a server id, which
\* replaced the client-generated one
C12_Witness ==
  /\ lastOp = "mergedServerId"
  /\ Len(mergeLog) = 1
  /\ mergeLog[1].gen = uuidCount
  /\ lastSearchId = ServerId(uuidCount)

\* the request body has the key k / the value it has for k
HasKey(body, k) == \E i \in 1..Len(body) : body[i][1] = k
ValueOf(body, k) == body[CHOOSE i \in 1..Len(body) : body[i][1] = k][2]

\* C13: the body of a search request as it is sent has the key brand, with the
\* JSON array of the selected brands, exactly when the brand list is not empty,
\* price_min with the number exactly when priceMin is set (0 included) and
\* price_max exactly when priceMax is set; a filter that is not set has no key.
C13_FilterEncoding ==
  [][ \A r \in inflight' :
        StartedSearch(r)
          => LET body == BodyOf(r)
             IN  /\ HasKey(body, "brand") <=> (Len(selectedBrands) # 0)
                 /\ HasKey(body, "brand")
                      => ValueOf(body, "brand")
                           = EncodeURIComponent(JSONStringify(selectedBrands))
                 /\ HasKey(body, "price_min") <=> (priceMin # None)
                 /\ HasKey(body, "price_min")
                      => ValueOf(body, "price_min") = StringOfNumber(priceMin[1])
                 /\ HasKey(body, "price_max") <=> (priceMax # None)
                 /\ HasKey(body, "price_max")
                      => ValueOf(body, "price_max") = StringOfNumber(priceMax[1]) ]_vars

\* C13 witness: a request went out with a brand, price_min = 0 and no price_max
C13_Witness ==
  \E r \in inflight :
    /\ r.kind = "text"
    /\ HasKey(BodyOf(r), "brand")
    /\ HasKey(BodyOf(r), "price_min")
    /\ ValueOf(BodyOf(r), "price_min") = << "0" >>
    /\ ~HasKey(BodyOf(r), "price_max")

\* the brand as addBrand stores it
Normalised(b) == b # EmptyStr /\ Trim(b) = b /\ ToLowerCase(b) = b

\* C14: the selected brands are non-empty, trimmed, lower-cased and pairwise
\* different; addBrand of a brand that is there already (in whatever letter case,
\* with whatever spaces around it) leaves the list as it is; removeBrand(b)
\* takes out b and nothing else.
C14_BrandList ==
  [][ /\ \A i \in 1..Len(selectedBrands') : Normalised(selectedBrands'[i])
      /\ \A i, j \in 1..Len(selectedBrands') :
           selectedBrands'[i] = selectedBrands'[j] => i = j
      /\ (AddBrand /\ Includes(selectedBrands, ToLowerCase(Trim(brandInput))))
           => selectedBrands' = selectedBrands
      /\ (AddBrand /\ Trim(brandInput) = EmptyStr) => selectedBrands' = selectedBrands
      /\ RemoveBrand
           => \E i \in 1..Len(selectedBrands) :
                selectedBrands' = SubSeq(selectedBrands, 1, i - 1)
                                    \o SubSeq(selectedBrands, i + 1, Len(selectedBrands))
    ]_vars

\* C14 witness: two brands are selected, typed as " A " and "B", and the box
\* holds a text naming one of them again
C14_Witness ==
  /\ selectedBrands = << << "a" >>, << "b" >> >>
  /\ brandInput = << " ", "A", " " >>
  /\ lastOp = "filterEdit"

\* a >= b on numbers, as JavaScript compares them (false when either is NaN)
Geq(a, b) == ~a.nan /\ ~b.nan /\ a.val >= b.val

\* C15: priceMin is unset or a number >= 0, and priceMax is unset or a number
\* >= priceMin.
C15_PriceRange ==
  /\ priceMin # None => Geq(priceMin[1], Num(0))
  /\ priceMax # None => ~priceMax[1].nan
  /\ (priceMin # None /\ priceMax # None) => Geq(priceMax[1], priceMin[1])

\* C16: when the detail endpoint answers with an empty collection openDetail
\* leaves the detail product, the image index, loading and error as they are and
\* goes on to ask for the similar items; of a non-empty collection it adopts
\* element 0 and nothing else.  The similar items answer sets similarProducts,
\* to the empty list when it has no list.
C16_EmptyDetailIsNoFailure ==
  [][ /\ \A r \in inflight :
           (r.kind = "detail" /\ r.stage = "detail" /\ r \notin inflight'
              /\ lastOp' # "detailFailed")
             => \E n \in inflight' :
                  /\ n.rid = r.rid /\ n.stage = "similar" /\ n.hash = r.hash
                  /\ n.got # None
                  /\ error' = error /\ loading' = loading
                  /\ similarProducts' = similarProducts
                  /\ IF n.got[1] = << >>
                     THEN /\ detailProduct' = detailProduct
                          /\ detailImgIdx' = detailImgIdx
                     ELSE /\ detailProduct' = n.got[1][1]
                          /\ detailImgIdx' = 0
      /\ lastOp' = "similarAbsent" => (similarProducts' = << >> /\ error' = error)
      /\ lastOp' = "similarGiven" => (similarProducts' \in Pages(0) /\ error' = error)
    ]_vars

\* C16 witness: the detail endpoint answered with an empty collection: no
\* product is shown, no error is showing, the similar items are being fetched
C16_Witness ==
  \E r \in inflight :
    /\ r.stage = "similar"
    /\ r.got = Some(<< >>)
    /\ detailProduct = NoProduct
    /\ error = NULL
    /\ loading

\* this step is one of an openDetail call: its start, or its resumption after
\* either await (with an answer or with a failure)
DetailStep ==
  \/ \E r \in inflight' : Started(r) /\ r.kind = "detail"
  \/ \E r \in inflight : r.kind = "detail" /\ r \notin inflight'

\* C17: no step of an openDetail call, successful or failed, changes
\* rawResults, visible, the session id, the query, the picked asset or the
\* filters, whatever searches are outstanding.
C17_DetailLeavesSession ==
  [][ DetailStep
        => UNCHANGED << rawResults, visible, lastSearchId, query, picked,
                        selectedBrands, priceMin, priceMax, brandInput >> ]_vars

\* C17 witness: an openDetail call has run to its end while a search, started
\* after the session the product was opened from, was outstanding
C17_Witness ==
  /\ lastOp = "similarGiven"
  /\ detailProduct # NoProduct
  /\ uuidCount = 2
  /\ lastSearchId = ClientId(2)
  /\ \E r \in inflight : r.kind \in { "text", "image" }

\* C18: the column count of a width w is 1 below 700, 2 from 700, 3 from 900,
\* 4 from 1200 and 5 from 1600; it is always in 1..5 and never decreases when
\* the width grows.
C18_Columns ==
  [][ /\ (width' < 700) => numColumns' = 1
      /\ (700 <= width' /\ width' < 900) => numColumns' = 2
      /\ (900 <= width' /\ width' < 1200) => numColumns' = 3
      /\ (1200 <= width' /\ width' < 1600) => numColumns' = 4
      /\ (1600 <= width') => numColumns' = 5
      /\ numColumns' \in 1..5
      /\ (width' >= width) => (numColumns' >= numColumns)
      /\ (width' <= width) => (numColumns' <= numColumns) ]_vars

\* C18 witness: the window is 1650 px wide and shows 5 columns
C18_Witness == width = 1650 /\ numColumns = 5

\* C19: visible and rawResults are the same sequence in every reachable state.
C19_VisibleMirrorsRaw == visible = rawResults

\* C19 witness: the answers of two different searches have been merged, one of
\* them stale, and the lists are not empty
C19_Witness ==
  /\ Len(mergeLog) = 2
  /\ mergeLog[1].gen # mergeLog[2].gen
  /\ Len(visible) >= 2
  /\ visible = rawResults

\* C20: the search_id of the response merged last wins.  When the answer of a
\* superseded text search is merged after an answer of the search that
\* superseded it, and carries an id, the session id becomes that id: an id of
\* the old session, which neither is nor was the id of the search started last.
C20_StaleIdWins ==
  [][ \A r \in inflight :
        ( /\ Merged
          /\ r \notin inflight'
          /\ r.kind = "text"
          /\ r.gen < uuidCount
          /\ \E i \in 1..Len(mergeLog) : mergeLog[i].gen = uuidCount
          /\ lastOp' \in { "mergedSentId", "mergedServerId" } )
          => /\ lastSearchId' \in { ClientId(r.gen), ServerId(r.gen) }
             /\ lastSearchId' \notin { ClientId(uuidCount), ServerId(uuidCount) } ]_vars

\* C20 witness: two searches overlapped, the answer of the second was merged
\* first, and with nothing outstanding the session id is one of the first search
C20_Witness ==
  /\ uuidCount = 2
  /\ Len(mergeLog) = 2
  /\ mergeLog[1].gen = 2
  /\ mergeLog[2].gen = 1
  /\ lastSearchId \in { ClientId(1), ServerId(1) }
  /\ inflight = {}

\* C21: loading is true while a search or detail call is outstanding, and false
\* once every call has been answered or has failed.
C21_LoadingTracksInflight ==
  /\ inflight # {} => loading
  /\ inflight = {} => ~loading

\* C23: a search request from offset 0 carries the id that the wipe() of its own
\* call produced, whatever was started before it was sent.
C23_OwnSessionId ==
  \A r \in inflight :
    (r.kind \in { "text", "image" } /\ r.stage = "post" /\ r.offset = 0)
      => r.sentId = ClientId(r.gen)

\* C22: whenever no openDetail call is outstanding and a product is shown, the
\* similar products list is the one that was fetched for the hash of that
\* product (or no list has been fetched yet and none is shown).
C22_SimilarMatchesDetail ==
  ( /\ \A r \in inflight : r.kind # "detail"
    /\ detailProduct # NoProduct )
    => \/ similarFor = detailProduct
       \/ (similarFor = NoHash /\ similarProducts = << >>)

====
